---- MODULE Spec2Model ----
(***************************************************************************)
(* Token lifecycle and usage analytics store of LMArenaBridge              *)
(* (src/database.py, class DashboardDatabase).                             *)
(*                                                                         *)
(* The variable data is self.data, the document {tokens, usage_logs,       *)
(* stats}; disk is the content of the JSON file written by _save_data;     *)
(* now is the wall clock read by datetime.now(); issued counts the secrets *)
(* drawn so far from secrets.token_urlsafe; last is the latest call made   *)
(* on the store together with the value it returned to its caller; applied *)
(* is the history of the entries log_usage has appended to usage_logs      *)
(* since the empty store, kept to state what the capped log retains.       *)
(*                                                                         *)
(* sessions is the dict sessions of the dashboard (dashboard_server.py,    *)
(* integrated_server.py), sids counts the session ids drawn so far from    *)
(* secrets.token_urlsafe, and threads holds, for each caller running       *)
(* log_usage on the store at the same time as others, the statement it has *)
(* reached and the values it holds in locals.                              *)
(***************************************************************************)
EXTENDS Integers, Sequences, FiniteSets, TLC

VARIABLES data, disk, now, issued, last, applied, sessions, sids, threads

vars == <<data, disk, now, issued, last, applied, sessions, sids, threads>>

(***************************************************************************)
(* Bounds of the model.                                                    *)
(***************************************************************************)
\* number of secrets the generator hands out in one run
MaxCreates == 2
\* number of record (log_usage) calls applied in one run of Spec
MaxRecords == 1
\* number of tokens issued in one run of SpecIps, SpecLog and SpecTimeline
MaxUsageTokens == 1
\* largest window, in days, asked of the timeline
MaxDays == 1
\* cap on a token's ip_addresses: 100 in the source (database.py:138),
\* scaled down so that the eviction is reached
MaxIpAddresses == 2
\* cap on the usage log: 10000 in the source (database.py:157-158),
\* scaled down so that the truncation is reached
MaxUsageLogs == 2

\* clock ticks per calendar day: a timestamp carries a date and a time of day
TicksPerDay == 2

\* the clock runs over two calendar days
MaxTime == 2 * TicksPerDay - 1

(***************************************************************************)
(* Values.                                                                 *)
(***************************************************************************)
\* Python's None where a timestamp is expected (last_used of a new token)
NoneTime == -1
\* Python's None where a token_id is expected (timeline over all tokens)
NoneId == -1

EmptyMap == [x \in {} |-> 0]

Put(f, k, v) == [x \in (DOMAIN f) \cup {k} |-> IF x = k THEN v ELSE f[x]]

Del(f, k) == [x \in (DOMAIN f) \ {k} |-> f[x]]

\* secrets: 1..MaxCreates are the strings the generator returns, in the order
\* it returns them; the two above are strings presented by callers that were
\* never issued
Secrets == 1..(MaxCreates + 2)

\* hashlib.sha256(token.encode()).hexdigest()[:16]: a truncated digest, many
\* secrets to one identifier.  The generated secrets have pairwise distinct
\* identifiers (the generator's values are unique with overwhelming
\* probability); of the never-issued strings one has the identifier of no
\* token and one shares the identifier of the first generated secret.
TokenIdOf(s) == 10 + ((s - 1) % (MaxCreates + 1))

TokenIds == {TokenIdOf(s) : s \in Secrets}

Models == {"gpt", "claude"}

Amounts == {1, 2}

\* ip strings: 0 is the loopback address 127.0.0.1, the others are remote
Ips == 0..(MaxIpAddresses + 1)

LoopbackIps == {0}

\* what the lookup at ip-api.com can yield for a remote address: a country
\* name, "Unknown" (failure, timeout, status other than 200, no country
\* field), or a falsy value (null or the empty string in the country field)
RemoteCountries == {"US", "Unknown", ""}

\* a status 200 body whose country field holds a non-empty JSON object or
\* array: data.get("country", "Unknown") returns the dict or list itself
UnhashableCountry == "{..}"

UserInfos == {"", "bob"}

\* number of callers that run log_usage at the same time
MaxThreads == 2

Threads == 1..MaxThreads

\* a caller that is not inside log_usage
Idle == [pc |-> "idle"]

(***************************************************************************)
(* DashboardDatabase                                                       *)
(***************************************************************************)
_create_empty_db ==
    [tokens |-> EmptyMap,
     usage_logs |-> <<>>,
     stats |-> [total_requests |-> 0, total_tokens |-> 0, active_tokens |-> 0]]

\* the record generate_token stores for a new token
NewToken(secret, user_info, t) ==
    [key |-> secret,
     created_at |-> t,
     last_used |-> NoneTime,
     is_active |-> TRUE,
     user_info |-> user_info,
     usage_stats |-> [total_requests |-> 0,
                      total_tokens |-> 0,
                      models_used |-> EmptyMap,
                      ip_addresses |-> <<>>,
                      countries |-> EmptyMap]]

\* generate_token storing the record under the key of the first secret
\* whatever the secret is
generate_token_one_id(d, secret, user_info, t) ==
    [d EXCEPT !.tokens = Put(d.tokens, TokenIdOf(1), NewToken(secret, user_info, t)),
              !.stats.active_tokens = @ + 1]

\* generate_token, on self.data
generate_token(d, secret, user_info, t) ==
    [d EXCEPT !.tokens = Put(d.tokens, TokenIdOf(secret), NewToken(secret, user_info, t)),
              !.stats.active_tokens = @ + 1]

get_token_by_id(d, token_id) ==
    IF token_id \in DOMAIN d.tokens THEN <<d.tokens[token_id]>> ELSE <<>>

\* get_token_info: <<>> is None, <<r>> the record found
get_token_info(d, secret) == get_token_by_id(d, TokenIdOf(secret))

\* validate_token that does not look at is_active
validate_token_any(d, secret) == get_token_info(d, secret) # <<>>

validate_token(d, secret) ==
    LET token_info == get_token_info(d, secret)
    IN  token_info # <<>> /\ token_info[1].is_active

\* revoke_token decrementing active_tokens whatever is_active was
revoke_token_blind(d, token_id) ==
    IF token_id \in DOMAIN d.tokens
    THEN <<[d EXCEPT !.stats.active_tokens = @ - 1,
                     !.tokens[token_id].is_active = FALSE], TRUE>>
    ELSE <<d, FALSE>>

\* revoke_token reporting failure for a token that is already inactive
revoke_token_strict(d, token_id) ==
    IF token_id \in DOMAIN d.tokens /\ d.tokens[token_id].is_active
    THEN <<[d EXCEPT !.stats.active_tokens = @ - 1,
                     !.tokens[token_id].is_active = FALSE], TRUE>>
    ELSE <<d, FALSE>>

\* revoke_token, on self.data: <<the data after the call, the value returned>>
revoke_token(d, token_id) ==
    IF token_id \in DOMAIN d.tokens
    THEN LET d1 == IF d.tokens[token_id].is_active
                   THEN [d EXCEPT !.stats.active_tokens = @ - 1]
                   ELSE d
         IN  <<[d1 EXCEPT !.tokens[token_id].is_active = FALSE], TRUE>>
    ELSE <<d, FALSE>>

\* activate_token incrementing active_tokens whatever is_active was
activate_token_blind(d, token_id) ==
    IF token_id \in DOMAIN d.tokens
    THEN <<[d EXCEPT !.stats.active_tokens = @ + 1,
                     !.tokens[token_id].is_active = TRUE], TRUE>>
    ELSE <<d, FALSE>>

\* activate_token, on self.data: <<the data after the call, the value returned>>
activate_token(d, token_id) ==
    IF token_id \in DOMAIN d.tokens
    THEN LET d1 == IF ~d.tokens[token_id].is_active
                   THEN [d EXCEPT !.stats.active_tokens = @ + 1]
                   ELSE d
         IN  <<[d1 EXCEPT !.tokens[token_id].is_active = TRUE], TRUE>>
    ELSE <<d, FALSE>>

\* delete_token that also drops the usage log entries of the token
delete_token_purging(d, token_id) ==
    IF token_id \in DOMAIN d.tokens
    THEN LET d1 == IF d.tokens[token_id].is_active
                   THEN [d EXCEPT !.stats.active_tokens = @ - 1]
                   ELSE d
         IN  <<[d1 EXCEPT !.tokens = Del(d1.tokens, token_id),
                          !.usage_logs = SelectSeq(@, LAMBDA e : e.token_id # token_id)], TRUE>>
    ELSE <<d, FALSE>>

\* delete_token, on self.data: <<the data after the call, the value returned>>
delete_token(d, token_id) ==
    IF token_id \in DOMAIN d.tokens
    THEN LET d1 == IF d.tokens[token_id].is_active
                   THEN [d EXCEPT !.stats.active_tokens = @ - 1]
                   ELSE d
         IN  <<[d1 EXCEPT !.tokens = Del(d1.tokens, token_id)], TRUE>>
    ELSE <<d, FALSE>>

\* _get_country_from_ip: the values the lookup of ip can return
CountriesOf(ip) == IF ip \in LoopbackIps THEN {"Local"} ELSE RemoteCountries

\* x in list
InSeq(x, q) == \E i \in DOMAIN q : q[i] = x

\* list.pop(0)
Pop0(q) == SubSeq(q, 2, Len(q))

\* list[-n:]
LastN(q, n) == IF Len(q) > n THEN SubSeq(q, Len(q) - n + 1, Len(q)) ELSE q

\* dict[k] += 1, the key created at 0 when absent
Incr(f, k) == Put(f, k, (IF k \in DOMAIN f THEN f[k] ELSE 0) + 1)

\* the tracking of IP addresses moving a repeated IP to the end of the list
TrackIpRefresh(ips, ip) ==
    LET a == Append(SelectSeq(ips, LAMBDA x : x # ip), ip)
    IN  IF Len(a) > MaxIpAddresses THEN Pop0(a) ELSE a

\* the tracking of IP addresses evicting the newest entry, list.pop()
TrackIpPopLast(ips, ip) ==
    IF ~InSeq(ip, ips)
    THEN LET a == Append(ips, ip)
         IN  IF Len(a) > MaxIpAddresses THEN SubSeq(a, 1, Len(a) - 1) ELSE a
    ELSE ips

\* "Track IP addresses (keep last 100)"
TrackIp(ips, ip) ==
    IF ~InSeq(ip, ips)
    THEN LET a == Append(ips, ip)
         IN  IF Len(a) > MaxIpAddresses THEN Pop0(a) ELSE a
    ELSE ips

\* "Track countries": "if country:" skips None and the empty string
TrackCountry(countries, country) ==
    IF country # "" THEN Incr(countries, country) ELSE countries

\* the usage log keeping its first entries, usage_logs[:10000]
AddUsageLogKeepFirst(logs, entry) ==
    LET a == Append(logs, entry)
    IN  IF Len(a) > MaxUsageLogs THEN SubSeq(a, 1, MaxUsageLogs) ELSE a

\* "Add to usage logs (keep last 10000)"
AddUsageLog(logs, entry) ==
    LET a == Append(logs, entry)
    IN  IF Len(a) > MaxUsageLogs THEN LastN(a, MaxUsageLogs) ELSE a

\* the entry log_usage appends to usage_logs
LogEntry(token_id, model, tokens_used, ip, country, t) ==
    [timestamp |-> t, token_id |-> token_id, model |-> model,
     tokens |-> tokens_used, ip |-> ip, country |-> country]

\* the global request counter following the length of the capped log
UpdateGlobalStatsCapped(stats, tokens_used) ==
    [stats EXCEPT !.total_requests = IF @ < MaxUsageLogs THEN @ + 1 ELSE @,
                  !.total_tokens = @ + tokens_used]

\* "Update global stats"
UpdateGlobalStats(stats, tokens_used) ==
    [stats EXCEPT !.total_requests = @ + 1, !.total_tokens = @ + tokens_used]

\* log_usage that counts and logs the event of an unknown token as well
log_usage_unchecked(d, secret, model, tokens_used, ip, country, t) ==
    LET token_id == TokenIdOf(secret)
        d1 == [d EXCEPT !.usage_logs = AddUsageLog(@, LogEntry(token_id, model, tokens_used, ip, country, t)),
                        !.stats = UpdateGlobalStats(@, tokens_used)]
    IN  IF token_id \notin DOMAIN d.tokens
        THEN d1
        ELSE LET us == d.tokens[token_id].usage_stats
                 us1 == [us EXCEPT !.total_requests = @ + 1,
                                   !.total_tokens = @ + tokens_used,
                                   !.models_used = Incr(@, model),
                                   !.ip_addresses = TrackIp(@, ip),
                                   !.countries = TrackCountry(@, country)]
             IN  [d1 EXCEPT !.tokens[token_id].last_used = t,
                            !.tokens[token_id].usage_stats = us1]

\* log_usage that drops the event of a token validate_token rejects
log_usage_active_only(d, secret, model, tokens_used, ip, country, t) ==
    IF validate_token(d, secret)
    THEN log_usage_unchecked(d, secret, model, tokens_used, ip, country, t)
    ELSE d

\* log_usage that stores a record for a token it does not find, and then
\* applies the event to it
log_usage_creating(d, secret, model, tokens_used, ip, country, t) ==
    LET token_id == TokenIdOf(secret)
        d0 == IF token_id \in DOMAIN d.tokens
              THEN d
              ELSE [d EXCEPT !.tokens = Put(@, token_id, NewToken(secret, "", t))]
        us == d0.tokens[token_id].usage_stats
        us1 == [us EXCEPT !.total_requests = @ + 1,
                          !.total_tokens = @ + tokens_used,
                          !.models_used = Incr(@, model),
                          !.ip_addresses = TrackIp(@, ip),
                          !.countries = TrackCountry(@, country)]
    IN  [d0 EXCEPT !.tokens[token_id].last_used = t,
                   !.tokens[token_id].usage_stats = us1,
                   !.usage_logs = AddUsageLog(@, LogEntry(token_id, model, tokens_used, ip, country, t)),
                   !.stats = UpdateGlobalStats(@, tokens_used)]

\* log_usage, on self.data, country being the value the lookup returned
log_usage(d, secret, model, tokens_used, ip, country, t) ==
    LET token_id == TokenIdOf(secret)
    IN  IF token_id \notin DOMAIN d.tokens
        THEN d
        ELSE LET us == d.tokens[token_id].usage_stats
                 us1 == [us EXCEPT !.total_requests = @ + 1,
                                   !.total_tokens = @ + tokens_used,
                                   !.models_used = Incr(@, model),
                                   !.ip_addresses = TrackIp(@, ip),
                                   !.countries = TrackCountry(@, country)]
             IN  [d EXCEPT !.tokens[token_id].last_used = t,
                           !.tokens[token_id].usage_stats = us1,
                           !.usage_logs = AddUsageLog(@, LogEntry(token_id, model, tokens_used, ip, country, t)),
                           !.stats = UpdateGlobalStats(@, tokens_used)]

\* log_usage when the lookup returned a non-empty dict or list: lines 124-139
\* have run (last_used, total_requests, total_tokens, models_used,
\* ip_addresses), "if country:" is true, and "country not in countries" of
\* line 143 raises TypeError (unhashable type) before the log entry, the
\* global counters and _save_data
log_usage_unhashable(d, secret, model, tokens_used, ip, t) ==
    LET token_id == TokenIdOf(secret)
        us == d.tokens[token_id].usage_stats
        us1 == [us EXCEPT !.total_requests = @ + 1,
                          !.total_tokens = @ + tokens_used,
                          !.models_used = Incr(@, model),
                          !.ip_addresses = TrackIp(@, ip)]
    IN  [d EXCEPT !.tokens[token_id].last_used = t,
                  !.tokens[token_id].usage_stats = us1]

\* what the JSON file can be other than a document written by _save_data:
\* absent; a text json.load rejects with JSONDecodeError (garbled, cut off by
\* a write that failed, empty); bytes that are not UTF-8; and a JSON text of
\* another shape, such as {}
Missing == [file |-> "missing"]

NotJson == [file |-> "not JSON"]

NotUtf8 == [file |-> "not UTF-8"]

WrongShape == [file |-> "{}"]

BadFiles == {Missing, NotJson, NotUtf8, WrongShape}

\* the constructor did not return: there is no store
NoStore == [raised |-> "UnicodeDecodeError"]

\* _load_data on the file f: <<self.data, "ok">>, or the exception that leaves
\* __init__.  Only json.JSONDecodeError is caught; what json.load returns is
\* taken as it is
_load_data(f) ==
    IF f = Missing
    THEN <<_create_empty_db, "ok">>
    ELSE IF f = NotJson
         THEN <<_create_empty_db, "ok">>
         ELSE IF f = NotUtf8
              THEN <<NoStore, "UnicodeDecodeError">>
              ELSE <<f, "ok">>

\* the store is constructed with no file in place
Init ==
    /\ data = _load_data(Missing)[1]
    /\ disk = Missing
    /\ now = 0
    /\ issued = 0
    /\ last = [op |-> "init", arg |-> 0, ret |-> TRUE]
    /\ applied = <<>>
    /\ sessions = EmptyMap
    /\ sids = 0
    /\ threads = [t \in Threads |-> Idle]

\* the clock advances between calls
Tick ==
    /\ now < MaxTime
    /\ now' = now + 1
    /\ UNCHANGED <<data, disk, issued, last, applied, sessions, sids, threads>>

\* datetime.now() is the local wall clock: an adjustment of the system time
\* sets it back
ClockBack ==
    /\ now > 0
    /\ now' = now - 1
    /\ UNCHANGED <<data, disk, issued, last, applied, sessions, sids, threads>>

GenerateToken(user_info) ==
    /\ issued < MaxCreates
    /\ issued' = issued + 1
    /\ data' = generate_token(data, issued + 1, user_info, now)
    /\ disk' = data'
    /\ last' = [op |-> "generate_token", arg |-> user_info, ret |-> issued + 1]
    /\ UNCHANGED <<now, applied, sessions, sids, threads>>

\* _save_data runs only on the path that returns True
RevokeToken(token_id) ==
    LET r == revoke_token(data, token_id)
    IN  /\ data' = r[1]
        /\ disk' = IF r[2] THEN data' ELSE disk
        /\ last' = [op |-> "revoke_token", arg |-> token_id, ret |-> r[2]]
        /\ UNCHANGED <<now, issued, applied, sessions, sids, threads>>

ActivateToken(token_id) ==
    LET r == activate_token(data, token_id)
    IN  /\ data' = r[1]
        /\ disk' = IF r[2] THEN data' ELSE disk
        /\ last' = [op |-> "activate_token", arg |-> token_id, ret |-> r[2]]
        /\ UNCHANGED <<now, issued, applied, sessions, sids, threads>>

\* delete_token that returns without _save_data
DeleteTokenUnsaved(token_id) ==
    LET r == delete_token(data, token_id)
    IN  /\ data' = r[1]
        /\ disk' = disk
        /\ last' = [op |-> "delete_token", arg |-> token_id, ret |-> r[2]]
        /\ UNCHANGED <<now, issued, applied, sessions, sids, threads>>

DeleteToken(token_id) ==
    LET r == delete_token(data, token_id)
    IN  /\ data' = r[1]
        /\ disk' = IF r[2] THEN data' ELSE disk
        /\ last' = [op |-> "delete_token", arg |-> token_id, ret |-> r[2]]
        /\ UNCHANGED <<now, issued, applied, sessions, sids, threads>>

ValidateToken(secret) ==
    /\ last' = [op |-> "validate_token", arg |-> secret, ret |-> validate_token(data, secret)]
    /\ UNCHANGED <<data, disk, now, issued, applied, sessions, sids, threads>>

\* log_usage returns None on both paths; _save_data runs only when the token
\* exists; country is the value _get_country_from_ip returns for ip
LogUsage(secret, model, tokens_used, ip, country) ==
    LET token_id == TokenIdOf(secret)
        known == token_id \in DOMAIN data.tokens
    IN  /\ country \in CountriesOf(ip)
        /\ data' = log_usage(data, secret, model, tokens_used, ip, country, now)
        /\ disk' = IF known THEN data' ELSE disk
        /\ applied' = IF known
                      THEN Append(applied, LogEntry(token_id, model, tokens_used, ip, country, now))
                      ELSE applied
        /\ last' = [op |-> "log_usage", arg |-> secret, ret |-> "None"]
        /\ UNCHANGED <<now, issued, sessions, sids, threads>>

\* datetime.strftime("%Y-%m-%d"): the calendar day of a timestamp
DateKey(t) == t \div TicksPerDay

\* the loop of get_usage_timeline skipping the entries at the cutoff as well
\* (log_date <= cutoff_date)
RECURSIVE TimelineDictStrict(_, _, _, _)
TimelineDictStrict(logs, i, token_id, cutoff_date) ==
    IF i = 0
    THEN EmptyMap
    ELSE LET timeline == TimelineDictStrict(logs, i - 1, token_id, cutoff_date)
             log == logs[i]
             date_key == DateKey(log.timestamp)
             old == IF date_key \in DOMAIN timeline
                    THEN timeline[date_key]
                    ELSE [requests |-> 0, tokens |-> 0]
         IN  IF log.timestamp <= cutoff_date
             THEN timeline
             ELSE IF token_id # NoneId /\ log.token_id # token_id
                  THEN timeline
                  ELSE Put(timeline, date_key,
                           [requests |-> old.requests + 1,
                            tokens |-> old.tokens + log.tokens])

\* the loop of get_usage_timeline over the first i entries of the log: the
\* dict timeline, date_key -> {requests, tokens}
RECURSIVE TimelineDict(_, _, _, _)
TimelineDict(logs, i, token_id, cutoff_date) ==
    IF i = 0
    THEN EmptyMap
    ELSE LET timeline == TimelineDict(logs, i - 1, token_id, cutoff_date)
             log == logs[i]
             date_key == DateKey(log.timestamp)
             old == IF date_key \in DOMAIN timeline
                    THEN timeline[date_key]
                    ELSE [requests |-> 0, tokens |-> 0]
         IN  IF log.timestamp < cutoff_date
             THEN timeline
             ELSE IF token_id # NoneId /\ log.token_id # token_id
                  THEN timeline
                  ELSE Put(timeline, date_key,
                           [requests |-> old.requests + 1,
                            tokens |-> old.tokens + log.tokens])

\* sorted(keys)
RECURSIVE SortedKeys(_)
SortedKeys(S) ==
    IF S = {}
    THEN <<>>
    ELSE LET k == CHOOSE x \in S : \A y \in S : x <= y
         IN  <<k>> \o SortedKeys(S \ {k})

\* get_usage_timeline at instant t: the list of {date, requests, tokens}
get_usage_timeline(d, token_id, days, t) ==
    LET cutoff_date == t - days * TicksPerDay
        timeline == TimelineDict(d.usage_logs, Len(d.usage_logs), token_id, cutoff_date)
        keys == SortedKeys(DOMAIN timeline)
    IN  [i \in 1..Len(keys) |->
            [date |-> keys[i],
             requests |-> timeline[keys[i]].requests,
             tokens |-> timeline[keys[i]].tokens]]

GetUsageTimeline(token_id, days) ==
    /\ last' = [op |-> "get_usage_timeline", arg |-> <<token_id, days>>,
                ret |-> get_usage_timeline(data, token_id, days, now)]
    /\ UNCHANGED <<data, disk, now, issued, applied, sessions, sids, threads>>

(***************************************************************************)
(* Persistence: restarts, the file found at startup, and writes that fail. *)
(***************************************************************************)
\* the store was constructed and self.data has the keys the methods index
Up == "tokens" \in DOMAIN data

\* the process is started again: a new DashboardDatabase loads the file, and
\* the module-level dict sessions is empty again
Restart ==
    /\ data' = _load_data(disk)[1]
    /\ last' = [op |-> "__init__", arg |-> 0, ret |-> _load_data(disk)[2]]
    /\ sessions' = EmptyMap
    /\ threads' = [t \in Threads |-> Idle]
    /\ UNCHANGED <<disk, now, issued, applied, sids>>

\* the file is removed or overwritten from outside the program
FileDamaged(f) ==
    /\ f \in BadFiles
    /\ disk' = f
    /\ UNCHANGED <<data, now, issued, last, applied, sessions, sids, threads>>

\* self.data was loaded from a JSON text without the keys "tokens" and "stats":
\* every method raises KeyError at its first subscript
OperationRaises ==
    /\ data = WrongShape
    /\ last' = [op |-> "KeyError", arg |-> 0, ret |-> "tokens"]
    /\ UNCHANGED <<data, disk, now, issued, applied, sessions, sids, threads>>

\* _save_data raises OSError: open(db_file, 'w') fails and the file stays as
\* it was, or the file is truncated and the dump stops before its end.  The
\* exception leaves the method op through its caller; self.data keeps the
\* value d1 the method has given it
SaveFails(d1, op, arg) ==
    /\ data' = d1
    /\ disk' \in {disk, NotJson}
    /\ last' = [op |-> "OSError", arg |-> op, ret |-> arg]

GenerateTokenSaveFails(user_info) ==
    /\ issued < MaxCreates
    /\ issued' = issued + 1
    /\ SaveFails(generate_token(data, issued + 1, user_info, now), "generate_token", user_info)
    /\ UNCHANGED <<now, applied, sessions, sids, threads>>

\* revoke_token that catches the exception of _save_data and returns True
RevokeTokenSaveSwallowed(token_id) ==
    /\ token_id \in DOMAIN data.tokens
    /\ data' = revoke_token(data, token_id)[1]
    /\ disk' \in {disk, NotJson}
    /\ last' = [op |-> "revoke_token", arg |-> token_id, ret |-> TRUE]
    /\ UNCHANGED <<now, issued, applied, sessions, sids, threads>>

RevokeTokenSaveFails(token_id) ==
    /\ token_id \in DOMAIN data.tokens
    /\ SaveFails(revoke_token(data, token_id)[1], "revoke_token", token_id)
    /\ UNCHANGED <<now, issued, applied, sessions, sids, threads>>

ActivateTokenSaveFails(token_id) ==
    /\ token_id \in DOMAIN data.tokens
    /\ SaveFails(activate_token(data, token_id)[1], "activate_token", token_id)
    /\ UNCHANGED <<now, issued, applied, sessions, sids, threads>>

DeleteTokenSaveFails(token_id) ==
    /\ token_id \in DOMAIN data.tokens
    /\ SaveFails(delete_token(data, token_id)[1], "delete_token", token_id)
    /\ UNCHANGED <<now, issued, applied, sessions, sids, threads>>

LogUsageSaveFails(secret, model, tokens_used, ip, country) ==
    LET token_id == TokenIdOf(secret)
    IN  /\ token_id \in DOMAIN data.tokens
        /\ country \in CountriesOf(ip)
        /\ SaveFails(log_usage(data, secret, model, tokens_used, ip, country, now),
                     "log_usage", secret)
        /\ applied' = Append(applied, LogEntry(token_id, model, tokens_used, ip, country, now))
        /\ UNCHANGED <<now, issued, sessions, sids, threads>>

\* log_usage for an existing token and a remote address whose lookup returned
\* UnhashableCountry: TypeError leaves log_usage, nothing is written
LogUsageTypeError(secret, model, tokens_used, ip) ==
    /\ TokenIdOf(secret) \in DOMAIN data.tokens
    /\ ip \notin LoopbackIps
    /\ data' = log_usage_unhashable(data, secret, model, tokens_used, ip, now)
    /\ last' = [op |-> "TypeError", arg |-> "log_usage", ret |-> secret]
    /\ UNCHANGED <<disk, now, issued, applied, sessions, sids, threads>>

(***************************************************************************)
(* log_usage run by several callers at once.  DashboardDatabase takes no   *)
(* lock: a caller runs the statements of log_usage in order, and between   *)
(* two of them another caller may run its own.  The augmented assignment   *)
(* of line 161 is a load followed by a store; the other statements are     *)
(* taken in blocks, which leaves out interleavings and adds none.          *)
(***************************************************************************)
\* lines 124-145 of log_usage: the aggregates of the token
TokenStats(d, token_id, model, tokens_used, ip, country, t) ==
    LET us == d.tokens[token_id].usage_stats
        us1 == [us EXCEPT !.total_requests = @ + 1,
                          !.total_tokens = @ + tokens_used,
                          !.models_used = Incr(@, model),
                          !.ip_addresses = TrackIp(@, ip),
                          !.countries = TrackCountry(@, country)]
    IN  [d EXCEPT !.tokens[token_id].last_used = t,
                  !.tokens[token_id].usage_stats = us1]

\* lines 116-145: the caller enters log_usage for an existing token, looks up
\* the country and updates the aggregates of the token
LogUsageEnter(t, secret, model, tokens_used, ip, country) ==
    LET token_id == TokenIdOf(secret)
    IN  /\ threads[t].pc = "idle"
        /\ token_id \in DOMAIN data.tokens
        /\ country \in CountriesOf(ip)
        /\ data' = TokenStats(data, token_id, model, tokens_used, ip, country, now)
        /\ threads' = [threads EXCEPT ![t] =
              [pc |-> "append", token_id |-> token_id, model |-> model,
               tokens_used |-> tokens_used, ip |-> ip, country |-> country, reg |-> 0]]
        /\ UNCHANGED <<disk, now, issued, last, applied, sessions, sids>>

\* lines 148-158: the log entry
LogUsageAppend(t) ==
    LET c == threads[t]
        log_entry == LogEntry(c.token_id, c.model, c.tokens_used, c.ip, c.country, now)
    IN  /\ c.pc = "append"
        /\ data' = [data EXCEPT !.usage_logs = AddUsageLog(@, log_entry)]
        /\ applied' = Append(applied, log_entry)
        /\ threads' = [threads EXCEPT ![t].pc = "load"]
        /\ UNCHANGED <<disk, now, issued, last, sessions, sids>>

\* line 161, the load of stats["total_requests"]
LogUsageLoad(t) ==
    /\ threads[t].pc = "load"
    /\ threads' = [threads EXCEPT ![t].pc = "store",
                                  ![t].reg = data.stats.total_requests]
    /\ UNCHANGED <<data, disk, now, issued, last, applied, sessions, sids>>

\* line 161, the store of the value loaded plus 1, and line 162
LogUsageStore(t) ==
    /\ threads[t].pc = "store"
    /\ data' = [data EXCEPT !.stats.total_requests = threads[t].reg + 1,
                            !.stats.total_tokens = @ + threads[t].tokens_used]
    /\ threads' = [threads EXCEPT ![t].pc = "save"]
    /\ UNCHANGED <<disk, now, issued, last, applied, sessions, sids>>

\* line 164: _save_data writes self.data as it is at that moment, and
\* log_usage returns
LogUsageSave(t) ==
    /\ threads[t].pc = "save"
    /\ disk' = data
    /\ last' = [op |-> "log_usage", arg |-> t, ret |-> "None"]
    /\ threads' = [threads EXCEPT ![t] = Idle]
    /\ UNCHANGED <<data, now, issued, applied, sessions, sids>>

\* GET /admin (admin_panel): get_all_tokens() and get_global_stats(), read
\* without a lock while callers are inside log_usage
AdminPanel ==
    /\ last' = [op |-> "admin_panel", arg |-> 0,
                ret |-> [tokens |-> data.tokens, stats |-> data.stats]]
    /\ UNCHANGED <<data, disk, now, issued, applied, sessions, sids, threads>>

(***************************************************************************)
(* Sessions of the dashboard (dashboard_server.py, integrated_server.py)   *)
(***************************************************************************)
\* number of session ids drawn in one run
MaxSessions == 2

\* timedelta(hours=24) in clock ticks
SessionTtl == TicksPerDay

\* the session_id cookie of a request: 0 is no cookie (None) or the empty
\* string, 1..MaxSessions are the ids create_session returns, in the order it
\* returns them, and the one above is a string that was never issued
NoCookie == 0

SessionIds == 0..(MaxSessions + 1)

ADMIN_USERNAME == "admin"

ADMIN_PASSWORD == "change_this_secure_password"

Usernames == {ADMIN_USERNAME, "eve"}

Passwords == {ADMIN_PASSWORD, "guess"}

\* create_session, on the dict sessions, session_id being the id drawn; both
\* readings of datetime.now() give t
create_session(ss, session_id, username, t) ==
    Put(ss, session_id,
        [username |-> username, created_at |-> t, expires_at |-> t + SessionTtl])

\* validate_session that takes the session as expired at expires_at already
validate_session_early(ss, session_id, t) ==
    IF session_id = NoCookie \/ session_id \notin DOMAIN ss
    THEN <<ss, FALSE>>
    ELSE IF t >= ss[session_id].expires_at
         THEN <<Del(ss, session_id), FALSE>>
         ELSE <<ss, TRUE>>

\* validate_session at instant t: <<sessions after the call, the value returned>>
validate_session(ss, session_id, t) ==
    IF session_id = NoCookie \/ session_id \notin DOMAIN ss
    THEN <<ss, FALSE>>
    ELSE IF t > ss[session_id].expires_at
         THEN <<Del(ss, session_id), FALSE>>
         ELSE <<ss, TRUE>>

\* get_current_user that lets every request through
get_current_user_open(session_id) == TRUE

\* get_current_user: TRUE when the dependency returns the username and the
\* route runs, FALSE when it raises HTTPException(401)
get_current_user(session_id) == validate_session(sessions, session_id, now)[2]

\* the request stops in get_current_user: HTTPException(status_code=401,
\* detail="Not authenticated"); validate_session has dropped the session it
\* found expired
NotAuthenticated(session_id) ==
    /\ ~get_current_user(session_id)
    /\ sessions' = validate_session(sessions, session_id, now)[1]
    /\ last' = [op |-> "401 Not authenticated", arg |-> session_id, ret |-> 401]
    /\ UNCHANGED <<data, disk, now, issued, applied, sids, threads>>

\* admin_login: the credentials match
admin_login(username, password) ==
    username = ADMIN_USERNAME /\ password = ADMIN_PASSWORD

\* POST /admin/login
AdminLogin(username, password) ==
    /\ sids < MaxSessions
    /\ IF admin_login(username, password)
       THEN /\ sids' = sids + 1
            /\ sessions' = create_session(sessions, sids + 1, username, now)
            /\ last' = [op |-> "admin_login", arg |-> username, ret |-> sids + 1]
       ELSE /\ last' = [op |-> "401 Invalid credentials", arg |-> username, ret |-> 401]
            /\ UNCHANGED <<sessions, sids>>
    /\ UNCHANGED <<data, disk, now, issued, applied, threads>>

\* admin_logout that empties the session store
admin_logout_all(ss, session_id) ==
    IF session_id # NoCookie /\ session_id \in DOMAIN ss THEN EmptyMap ELSE ss

\* admin_logout, on the dict sessions
admin_logout(ss, session_id) ==
    IF session_id # NoCookie /\ session_id \in DOMAIN ss THEN Del(ss, session_id) ELSE ss

\* GET /admin/logout: answers with the redirect to the login page in every case
AdminLogout(session_id) ==
    /\ sessions' = admin_logout(sessions, session_id)
    /\ last' = [op |-> "admin_logout", arg |-> session_id, ret |-> 303]
    /\ UNCHANGED <<data, disk, now, issued, applied, sids, threads>>

\* GET /api/admin/tokens
AdminGetAllTokens(session_id) ==
    \/ /\ get_current_user(session_id)
       /\ last' = [op |-> "get_all_tokens", arg |-> session_id, ret |-> data.tokens]
       /\ UNCHANGED <<data, disk, now, issued, applied, sessions, sids, threads>>
    \/ NotAuthenticated(session_id)

\* POST /admin/token/create
AdminCreateToken(session_id, user_info) ==
    \/ get_current_user(session_id) /\ GenerateToken(user_info)
    \/ NotAuthenticated(session_id)

\* POST /admin/token/{token_id}/revoke
AdminRevokeToken(session_id, token_id) ==
    \/ get_current_user(session_id) /\ RevokeToken(token_id)
    \/ NotAuthenticated(session_id)

\* POST /admin/token/{token_id}/activate
AdminActivateToken(session_id, token_id) ==
    \/ get_current_user(session_id) /\ ActivateToken(token_id)
    \/ NotAuthenticated(session_id)

\* POST /admin/token/{token_id}/delete
AdminDeleteToken(session_id, token_id) ==
    \/ get_current_user(session_id) /\ DeleteToken(token_id)
    \/ NotAuthenticated(session_id)

\* the administrative operations on issued tokens
Admin ==
    \/ \E i \in TokenIds : RevokeToken(i)
    \/ \E i \in TokenIds : ActivateToken(i)
    \/ \E i \in TokenIds : DeleteToken(i)

AllCountries == RemoteCountries \cup {"Local"}

\* a run applies at most n record calls; the calls that are dropped are not
\* counted
MayRecord(s, n) == Len(applied) < n \/ TokenIdOf(s) \notin DOMAIN data.tokens

\* Spec: the token lifecycle, validation and usage recording from the
\* loopback address
Next ==
    \/ \E u \in UserInfos : GenerateToken(u)
    \/ Admin
    \/ \E s \in Secrets : ValidateToken(s)
    \/ \E s \in Secrets, m \in Models :
          MayRecord(s, MaxRecords) /\ LogUsage(s, m, 1, 0, "Local")

Spec == Init /\ [][Next]_vars

\* SpecIps: usage recorded from remote addresses, past the cap on
\* ip_addresses, while the lookup service cannot be reached
NextIps ==
    \/ issued < MaxUsageTokens /\ GenerateToken("")
    \/ \E s \in Secrets, ip \in Ips \ LoopbackIps :
          MayRecord(s, MaxIpAddresses + 2) /\ LogUsage(s, "gpt", 1, ip, "Unknown")

SpecIps == Init /\ [][NextIps]_vars

\* SpecLog: usage recorded past the cap on usage_logs, with the
\* administrative operations in between
NextLog ==
    \/ issued < MaxUsageTokens /\ GenerateToken("bob")
    \/ Admin
    \/ \E s \in Secrets, n \in Amounts :
          MayRecord(s, MaxUsageLogs + 1) /\ LogUsage(s, "gpt", n, 0, "Local")

SpecLog == Init /\ [][NextLog]_vars

\* SpecTimeline: tokens issued at the first instant, usage recorded while the
\* clock moves, and the timeline asked at any instant for all tokens, for an
\* issued token or for an identifier without token
NextTimeline ==
    \/ Tick
    \/ ClockBack
    \/ issued < MaxUsageTokens /\ now = 0 /\ GenerateToken("")
    \/ \E s \in 1..MaxUsageTokens, n \in Amounts :
          MayRecord(s, MaxUsageLogs) /\ LogUsage(s, "gpt", n, 0, "Local")
    \/ \E i \in {TokenIdOf(s) : s \in 1..(MaxUsageTokens + 1)} \cup {NoneId}, days \in 1..MaxDays :
          GetUsageTimeline(i, days)

SpecTimeline == Init /\ [][NextTimeline]_vars

\* a run of SpecSessions creates its tokens at the first instant; the requests
\* that are turned away are not limited
MayCreate(c) == (issued < MaxUsageTokens /\ now = 0) \/ ~get_current_user(c)

\* SpecSessions: logins with right and wrong credentials, the admin routes
\* called with every kind of cookie while the clock moves past the expiry of
\* the sessions, logouts, and usage recorded for the token
NextSessions ==
    \/ Tick
    \/ \E u \in Usernames, p \in Passwords : AdminLogin(u, p)
    \/ \E c \in SessionIds : AdminLogout(c)
    \/ \E c \in SessionIds : AdminGetAllTokens(c)
    \/ \E c \in SessionIds : MayCreate(c) /\ AdminCreateToken(c, "")
    \/ \E c \in SessionIds, s \in 1..MaxUsageTokens : AdminRevokeToken(c, TokenIdOf(s))
    \/ \E c \in SessionIds, s \in 1..MaxUsageTokens : AdminActivateToken(c, TokenIdOf(s))
    \/ \E c \in SessionIds, s \in 1..MaxUsageTokens : AdminDeleteToken(c, TokenIdOf(s))

SpecSessions == Init /\ [][NextSessions]_vars

\* the record calls entered so far, for the token of secret s
Entered(s) ==
    IF TokenIdOf(s) \in DOMAIN data.tokens
    THEN data.tokens[TokenIdOf(s)].usage_stats.total_requests
    ELSE 0

\* SpecThreads: callers that run log_usage for one token at the same time,
\* next to revoke and activate and to the reads of the admin panel
NextThreads ==
    \/ issued < MaxUsageTokens /\ GenerateToken("")
    \/ \E s \in 1..MaxUsageTokens : RevokeToken(TokenIdOf(s))
    \/ \E s \in 1..MaxUsageTokens : ActivateToken(TokenIdOf(s))
    \/ \E t \in Threads, s \in 1..MaxUsageTokens :
          Entered(s) < MaxThreads /\ LogUsageEnter(t, s, "gpt", 1, 0, "Local")
    \/ \E t \in Threads : LogUsageAppend(t)
    \/ \E t \in Threads : LogUsageLoad(t)
    \/ \E t \in Threads : LogUsageStore(t)
    \/ \E t \in Threads : LogUsageSave(t)
    \/ AdminPanel

SpecThreads == Init /\ [][NextThreads]_vars

\* the operations of the store on the tokens issued
StoreOps ==
    \/ issued < MaxUsageTokens /\ GenerateToken("bob")
    \/ \E s \in 1..MaxUsageTokens : RevokeToken(TokenIdOf(s))
    \/ \E s \in 1..MaxUsageTokens : ActivateToken(TokenIdOf(s))
    \/ \E s \in 1..(MaxUsageTokens + 1) : DeleteToken(TokenIdOf(s))
    \/ \E s \in 1..MaxUsageTokens :
          MayRecord(s, MaxRecords) /\ LogUsage(s, "gpt", 1, 0, "Local")

\* the same operations when the write fails
StoreOpsSaveFails ==
    \/ issued < MaxUsageTokens /\ GenerateTokenSaveFails("bob")
    \/ \E s \in 1..MaxUsageTokens : RevokeTokenSaveFails(TokenIdOf(s))
    \/ \E s \in 1..MaxUsageTokens : ActivateTokenSaveFails(TokenIdOf(s))
    \/ \E s \in 1..MaxUsageTokens : DeleteTokenSaveFails(TokenIdOf(s))
    \/ \E s \in 1..MaxUsageTokens :
          MayRecord(s, MaxRecords) /\ LogUsageSaveFails(s, "gpt", 1, 0, "Local")

\* SpecPersist: the store over restarts, with writes that fail, and one login
NextPersist ==
    \/ StoreOps
    \/ StoreOpsSaveFails
    \/ \E p \in Passwords : sids = 0 /\ AdminLogin(ADMIN_USERNAME, p)
    \/ Restart

SpecPersist == Init /\ [][NextPersist]_vars

\* SpecStartup: the store started on whatever file it finds, the file being
\* removed or overwritten from outside between two runs
NextStartup ==
    \/ \E f \in BadFiles : FileDamaged(f)
    \/ Restart
    \/ OperationRaises
    \/ Up /\ StoreOps
    \/ \E s \in 1..MaxUsageTokens : Up /\ ValidateToken(s)

SpecStartup == Init /\ [][NextStartup]_vars

\* the total_requests of the tokens of S, summed
RECURSIVE SumRequests(_, _)
SumRequests(tokens, S) ==
    IF S = {}
    THEN 0
    ELSE LET k == CHOOSE x \in S : TRUE
         IN  tokens[k].usage_stats.total_requests + SumRequests(tokens, S \ {k})

\* a run makes at most MaxRecords + 1 record calls for existing tokens,
\* completed or not; the calls that are dropped are not counted
RecordAllowed(s) ==
    \/ SumRequests(data.tokens, DOMAIN data.tokens) <= MaxRecords
    \/ TokenIdOf(s) \notin DOMAIN data.tokens

\* SpecGeo: usage recorded from the loopback address and from a remote one,
\* with every value the lookup can return
NextGeo ==
    \/ issued < MaxUsageTokens /\ GenerateToken("")
    \/ \E s \in 1..MaxUsageTokens : RevokeToken(TokenIdOf(s))
    \/ \E s \in 1..MaxUsageTokens : ActivateToken(TokenIdOf(s))
    \/ \E s \in 1..(MaxUsageTokens + 1), ip \in {0, 1} :
          \E c \in CountriesOf(ip) : RecordAllowed(s) /\ LogUsage(s, "gpt", 1, ip, c)
    \/ \E s \in 1..MaxUsageTokens :
          RecordAllowed(s) /\ LogUsageTypeError(s, "gpt", 1, 1)

SpecGeo == Init /\ [][NextGeo]_vars

(***************************************************************************)
(* Properties.                                                             *)
(***************************************************************************)
ActiveIds(d) == {i \in DOMAIN d.tokens : d.tokens[i].is_active}

\* C1: after every step of create, revoke, activate, delete and record,
\* stats.active_tokens is the number of token records whose is_active is true.
C1_ActiveTokensIsCount ==
    data.stats.active_tokens = Cardinality(ActiveIds(data))

\* a revoked token next to an active one, after usage was recorded
C1_Witness ==
    /\ Cardinality(DOMAIN data.tokens) = 2
    /\ Cardinality(ActiveIds(data)) = 1
    /\ Len(applied) > 0
    /\ last.op \in {"revoke_token", "activate_token"}

\* what C2 says of one call revoke_token(i)
RevokePost(i) ==
    IF i \in DOMAIN data.tokens
    THEN /\ last'.ret = TRUE
         /\ i \in DOMAIN data'.tokens
         /\ data'.tokens[i].is_active = FALSE
         /\ IF data.tokens[i].is_active
            THEN data'.stats.active_tokens = data.stats.active_tokens - 1
            ELSE /\ data'.stats.active_tokens = data.stats.active_tokens
                 /\ data' = data
         \* a second revoke gives the state of the first
         /\ revoke_token(data', i) = <<data', TRUE>>
    ELSE /\ last'.ret = FALSE
         /\ data' = data
         /\ disk' = disk

\* C2: revoke is idempotent: on an active token it clears is_active and takes
\* exactly 1 from active_tokens; on an inactive token it returns true and
\* changes neither; it returns false only for an unknown token_id, changing
\* nothing.
C2_RevokeIdempotent ==
    [][\A i \in TokenIds : RevokeToken(i) => RevokePost(i)]_vars

\* revoke has returned true for a token while another token stays active
C2_Witness ==
    /\ last.op = "revoke_token"
    /\ last.ret = TRUE
    /\ ~data.tokens[last.arg].is_active
    /\ data.stats.active_tokens = 1

\* what C3 says of one call activate_token(i)
ActivatePost(i) ==
    IF i \in DOMAIN data.tokens
    THEN /\ last'.ret = TRUE
         /\ i \in DOMAIN data'.tokens
         /\ data'.tokens[i].is_active = TRUE
         /\ IF data.tokens[i].is_active
            THEN /\ data'.stats.active_tokens = data.stats.active_tokens
                 /\ data' = data
            ELSE data'.stats.active_tokens = data.stats.active_tokens + 1
    ELSE /\ last'.ret = FALSE
         /\ data' = data
         /\ disk' = disk

\* revoke then activate of the active token i gives back is_active and
\* active_tokens
RevokeActivateRestores(i) ==
    LET d1 == revoke_token(data, i)[1]
        d2 == activate_token(d1, i)[1]
    IN  /\ ~d1.tokens[i].is_active
        /\ d1.stats.active_tokens = data.stats.active_tokens - 1
        /\ d2.tokens[i].is_active
        /\ d2.stats.active_tokens = data.stats.active_tokens

\* C3: activate is the inverse of revoke: on an inactive token it sets
\* is_active and adds exactly 1 to active_tokens; on an active token it
\* returns true and leaves active_tokens; on an unknown token_id it returns
\* false and changes nothing; revoke then activate of an active token restores
\* its is_active and active_tokens.
C3_ActivateInverse ==
    /\ [][\A i \in TokenIds : ActivateToken(i) => ActivatePost(i)]_vars
    /\ [](\A i \in ActiveIds(data) : RevokeActivateRestores(i))

\* activate has brought back a revoked token
C3_Witness ==
    /\ last.op = "activate_token"
    /\ last.ret = TRUE
    /\ data.tokens[last.arg].is_active
    /\ data.stats.active_tokens = 2

\* the secrets whose identifier is i
SecretsOf(i) == {s \in Secrets : TokenIdOf(s) = i}

\* the log holds an entry of token i
Logged(d, i) == \E k \in DOMAIN d.usage_logs : d.usage_logs[k].token_id = i

\* what C4 says of one call delete_token(i)
DeletePost(i) ==
    IF i \in DOMAIN data.tokens
    THEN /\ last'.ret = TRUE
         /\ DOMAIN data'.tokens = DOMAIN data.tokens \ {i}
         /\ \A j \in DOMAIN data'.tokens : data'.tokens[j] = data.tokens[j]
         /\ data'.stats.active_tokens =
               data.stats.active_tokens - (IF data.tokens[i].is_active THEN 1 ELSE 0)
         /\ data'.usage_logs = data.usage_logs
         /\ data'.stats.total_requests = data.stats.total_requests
         /\ data'.stats.total_tokens = data.stats.total_tokens
         \* the entries of the deleted token are still in the timeline
         /\ \A days \in 1..MaxDays :
               /\ get_usage_timeline(data', i, days, now') = get_usage_timeline(data, i, days, now)
               /\ Logged(data, i) => get_usage_timeline(data', i, days, now') # <<>>
         \* not found afterwards
         /\ get_token_by_id(data', i) = <<>>
         /\ \A s \in SecretsOf(i) : get_token_info(data', s) = <<>> /\ ~validate_token(data', s)
         /\ revoke_token(data', i) = <<data', FALSE>>
         /\ activate_token(data', i) = <<data', FALSE>>
         /\ delete_token(data', i) = <<data', FALSE>>
    ELSE /\ last'.ret = FALSE
         /\ data' = data
         /\ disk' = disk

\* C4: delete of an existing token removes exactly that record (taking 1 from
\* active_tokens iff it was active) and leaves the usage log, total_requests,
\* total_tokens and every other token; the log entries of the deleted token
\* remain and the timeline still returns them; afterwards lookup, validate,
\* revoke, activate and delete of that token report not-found/false; delete of
\* an unknown token_id returns false and changes nothing.
C4_DeleteFrame ==
    [][\A i \in TokenIds : DeleteToken(i) => DeletePost(i)]_vars

\* a token with recorded usage was deleted while another one stays
C4_Witness ==
    /\ last.op = "delete_token"
    /\ last.ret = TRUE
    /\ Logged(data, last.arg)
    /\ ActiveIds(data) # {}

\* C5: for every secret, validate(secret) is true iff a token record exists
\* under the identifier derived from the secret and its is_active is true; it
\* is true right after create, false after revoke, true after activate and
\* false after delete.
C5_ValidateIffActive ==
    /\ \A s \in Secrets :
          validate_token(data, s) <=>
             (\E i \in DOMAIN data.tokens : i = TokenIdOf(s) /\ data.tokens[i].is_active)
    /\ last.op = "validate_token" =>
          (last.ret <=> TokenIdOf(last.arg) \in ActiveIds(data))
    /\ last.op = "generate_token" => validate_token(data, last.ret)
    /\ (last.op = "revoke_token" /\ last.ret) =>
          \A s \in SecretsOf(last.arg) : ~validate_token(data, s)
    /\ (last.op = "activate_token" /\ last.ret) =>
          \A s \in SecretsOf(last.arg) : validate_token(data, s)
    /\ (last.op = "delete_token" /\ last.ret) =>
          \A s \in SecretsOf(last.arg) : ~validate_token(data, s)

\* validate has refused the secret of a token that exists and is revoked
C5_Witness ==
    /\ last.op = "validate_token"
    /\ last.ret = FALSE
    /\ TokenIdOf(last.arg) \in DOMAIN data.tokens
    /\ data.tokens[TokenIdOf(last.arg)].key = last.arg

\* the step is a call of log_usage with the secret last' names
LogUsageStep ==
    /\ last'.op = "log_usage"
    /\ \E m \in Models, n \in Amounts, ip \in Ips, c \in AllCountries :
          LogUsage(last'.arg, m, n, ip, c)

\* C6: record with a secret whose derived token_id is not in the store (never
\* created, or deleted) is dropped: tokens, usage log, global counters and the
\* persisted state stay as they are, no token is created, and the caller gets
\* the same None as for an applied record.
C6_UnknownRecordDropped ==
    [][(LogUsageStep /\ TokenIdOf(last'.arg) \notin DOMAIN data.tokens) =>
          /\ data' = data
          /\ disk' = disk
          /\ last'.ret = "None"]_vars

\* a record was presented with the secret of a deleted token, after usage
\* was recorded for it
C6_Witness ==
    /\ last.op = "log_usage"
    /\ last.arg <= issued
    /\ TokenIdOf(last.arg) \notin DOMAIN data.tokens
    /\ Logged(data, TokenIdOf(last.arg))

NoDuplicate(q) == \A a, b \in DOMAIN q : a # b => q[a] # q[b]

\* the applied record events of token i, in recording order
EventsOf(i) == SelectSeq(applied, LAMBDA e : e.token_id = i)

IpList(d, i) == d.tokens[i].usage_stats.ip_addresses

\* every ip_addresses list is duplicate-free and within the cap
IpListsBounded ==
    \A i \in DOMAIN data.tokens :
        NoDuplicate(IpList(data, i)) /\ Len(IpList(data, i)) <= MaxIpAddresses

\* a token whose events so far came from cap + 1 distinct IPs
OverCapDistinct(i) ==
    LET h == EventsOf(i)
    IN  /\ Len(h) = MaxIpAddresses + 1
        /\ \A a, b \in DOMAIN h : a # b => h[a].ip # h[b].ip

\* after events from cap + 1 distinct IPs the list is full and the first IP
\* is gone
FirstIpEvicted ==
    \A i \in DOMAIN data.tokens :
        OverCapDistinct(i) =>
            /\ Len(IpList(data, i)) = MaxIpAddresses
            /\ ~InSeq(EventsOf(i)[1].ip, IpList(data, i))

\* the step applies a record event: log_usage ran for an existing token
AppliedStep == last'.op = "log_usage" /\ Len(applied') = Len(applied) + 1

\* an applied record with a new IP appends it and, over the cap, drops index 0
NewIpAppended ==
    AppliedStep =>
        LET e == applied'[Len(applied')]
            old == IpList(data, e.token_id)
            new == IpList(data', e.token_id)
        IN  ~InSeq(e.ip, old) =>
                new = IF Len(old) + 1 > MaxIpAddresses
                      THEN Tail(old) \o <<e.ip>>
                      ELSE old \o <<e.ip>>

\* C7: every token's ip_addresses has no duplicate and at most the cap (100)
\* entries; recording an IP not in the list appends it at the end and, if the
\* list then exceeds the cap, removes the entry at index 0; after events from
\* cap + 1 (101) distinct IPs for one token the list has the cap's length and
\* does not contain the first IP.
C7_IpListCapped ==
    /\ [](IpListsBounded /\ FirstIpEvicted)
    /\ [][NewIpAppended]_vars

\* one token has been used from cap + 1 distinct IPs
C7_Witness ==
    /\ last.op = "log_usage"
    /\ \E i \in DOMAIN data.tokens : OverCapDistinct(i)

Min(a, b) == IF a < b THEN a ELSE b

\* C8: the usage log has at most the cap (10,000) entries and is the most
\* recent suffix of the sequence of all applied record events, in recording
\* order; after cap + 1 (10,001) applied events its length is the cap and its
\* oldest entry is the 2nd event recorded overall.
C8_LogIsRecentSuffix ==
    LET logs == data.usage_logs
        n == Len(logs)
    IN  /\ n <= MaxUsageLogs
        /\ n = Min(Len(applied), MaxUsageLogs)
        /\ \A k \in 1..n : logs[k] = applied[Len(applied) - n + k]
        /\ Len(applied) = MaxUsageLogs + 1 => n = MaxUsageLogs /\ logs[1] = applied[2]

\* cap + 1 events were applied, the first two of them different
C8_Witness ==
    /\ last.op = "log_usage"
    /\ Len(applied) = MaxUsageLogs + 1
    /\ applied[1] # applied[2]

RECURSIVE SumTokens(_, _)
SumTokens(q, S) ==
    IF S = {}
    THEN 0
    ELSE LET k == CHOOSE x \in S : TRUE
         IN  q[k].tokens + SumTokens(q, S \ {k})

\* the global counters count the applied record events
CountersCountApplied ==
    /\ data.stats.total_requests = Len(applied)
    /\ data.stats.total_tokens = SumTokens(applied, DOMAIN applied)

\* an applied record adds 1 and tokens_used; no other step changes the counters
CountersStep ==
    /\ data'.stats.total_requests >= data.stats.total_requests
    /\ AppliedStep =>
          /\ data'.stats.total_requests = data.stats.total_requests + 1
          /\ data'.stats.total_tokens =
                data.stats.total_tokens + applied'[Len(applied')].tokens
    /\ ~AppliedStep =>
          /\ data'.stats.total_requests = data.stats.total_requests
          /\ data'.stats.total_tokens = data.stats.total_tokens

\* C9: stats.total_requests is a monotonic counter equal to the number of
\* record calls applied to an existing token since the empty store: an applied
\* record adds exactly 1 (and tokens_consumed to stats.total_tokens), and
\* neither the truncation of the usage log at its cap nor revoke, activate or
\* delete changes it.
C9_TotalRequestsMonotonic ==
    /\ [](CountersCountApplied)
    /\ [][CountersStep]_vars

\* a token was deleted after the log was truncated
C9_Witness ==
    /\ last.op = "delete_token"
    /\ last.ret = TRUE
    /\ data.stats.total_requests = MaxUsageLogs + 1
    /\ Len(data.usage_logs) = MaxUsageLogs

\* the log entries get_usage_timeline(token_id, days) must keep at instant now:
\* not strictly older than now - days, and of token_id when one is given
Surviving(token_id, days) ==
    {k \in DOMAIN data.usage_logs :
        /\ data.usage_logs[k].timestamp >= now - days * TicksPerDay
        /\ token_id # NoneId => data.usage_logs[k].token_id = token_id}

SurvivingOn(token_id, days, date) ==
    {k \in Surviving(token_id, days) : DateKey(data.usage_logs[k].timestamp) = date}

TimelineCorrect(token_id, days) ==
    LET out == get_usage_timeline(data, token_id, days, now)
    IN  /\ \A b \in DOMAIN out :
              /\ out[b].requests = Cardinality(SurvivingOn(token_id, days, out[b].date))
              /\ out[b].tokens = SumTokens(data.usage_logs, SurvivingOn(token_id, days, out[b].date))
              /\ out[b].requests >= 1
        /\ \A k \in Surviving(token_id, days) :
              \E b \in DOMAIN out : out[b].date = DateKey(data.usage_logs[k].timestamp)
        /\ \A a, b \in DOMAIN out : a < b => out[a].date < out[b].date

\* C10: timeline(token_id, days) leaves out every log entry strictly older
\* than now - days and, when token_id is given, every entry of another token;
\* each emitted bucket has requests = the number of the remaining entries of
\* that calendar day and tokens = the sum of their tokens_consumed; buckets
\* come in strictly ascending date order and no bucket is emitted for a date
\* without a remaining entry.
C10_TimelineBuckets ==
    \A i \in TokenIds \cup {NoneId}, days \in 1..MaxDays : TimelineCorrect(i, days)

\* the timeline was asked when the log held, on one calendar day, an entry
\* older than the window and an entry inside it: one bucket, counting one
C10_Witness ==
    /\ last.op = "get_usage_timeline"
    /\ last.ret = get_usage_timeline(data, last.arg[1], last.arg[2], now)
    /\ Len(last.ret) = 1
    /\ last.ret[1].requests = 1
    /\ \E k \in DOMAIN data.usage_logs :
          /\ k \notin Surviving(last.arg[1], last.arg[2])
          /\ DateKey(data.usage_logs[k].timestamp) = last.ret[1].date
          /\ data.usage_logs[k].timestamp < now - last.arg[2] * TicksPerDay

\* the session of cookie c is in the store and not past its expiry
Live(c) == c # NoCookie /\ c \in DOMAIN sessions /\ now <= sessions[c].expires_at

\* a login that succeeds stores the session under the id drawn, expiring 24
\* hours after the instant of the call
LoginCreates ==
    \A u \in Usernames, p \in Passwords :
        (AdminLogin(u, p) /\ admin_login(u, p)) =>
            /\ DOMAIN sessions' = DOMAIN sessions \cup {sids + 1}
            /\ sessions'[sids + 1].created_at = now
            /\ sessions'[sids + 1].expires_at = now + SessionTtl

\* a stored session is never altered
SessionsKept ==
    \A c \in DOMAIN sessions \cap DOMAIN sessions' : sessions'[c] = sessions[c]

\* a validate call that finds the session expired removes it, and a session
\* leaves the store only this way or by a logout that names it
LazyEviction ==
    /\ \A c \in DOMAIN sessions :
          (NotAuthenticated(c) /\ now > sessions[c].expires_at) => c \notin DOMAIN sessions'
    /\ \A c \in DOMAIN sessions \ DOMAIN sessions' :
          \/ NotAuthenticated(c) /\ now > sessions[c].expires_at
          \/ AdminLogout(c)

\* C11: a session created at T has expires_at = T + 24h; validate reports a
\* session valid exactly when it is in the store and now <= expires_at, so
\* invalid for an absent id and when now > T + 24h; the session leaves the
\* store exactly on the first validate call that observes it expired, never
\* by a step in the background.
C11_SessionExpiry ==
    /\ [](\A c \in SessionIds : validate_session(sessions, c, now)[2] <=> Live(c))
    /\ [][LoginCreates /\ SessionsKept /\ LazyEviction]_vars

\* an admin route has accepted a session at the very instant it expires,
\* after another session was created
C11_Witness ==
    /\ last.op = "get_all_tokens"
    /\ last.arg \in DOMAIN sessions
    /\ now = sessions[last.arg].expires_at
    /\ sessions[last.arg].created_at + SessionTtl = now
    /\ sids = MaxSessions

\* what C19 says of one call of logout with cookie c
LogoutPost(c) ==
    /\ IF c # NoCookie /\ c \in DOMAIN sessions
       THEN DOMAIN sessions' = DOMAIN sessions \ {c}
       ELSE sessions' = sessions
    /\ \A o \in DOMAIN sessions \ {c} :
          o \in DOMAIN sessions' /\ sessions'[o] = sessions[o]
    /\ ~validate_session(sessions', c, now')[2]
    /\ UNCHANGED <<data, disk>>

\* C19: logout(session_id) removes that session if it is in the store and
\* changes nothing otherwise (no cookie, unknown id); it never removes or
\* alters another session, and afterwards validate reports the id invalid.
C19_LogoutFrame ==
    [][\A c \in SessionIds : AdminLogout(c) => LogoutPost(c)]_vars

\* a session that had not expired was logged out while another one is still
\* in the store and valid
C19_Witness ==
    /\ last.op = "admin_logout"
    /\ last.arg \in 1..sids
    /\ last.arg \notin DOMAIN sessions
    /\ now < SessionTtl
    /\ \E o \in DOMAIN sessions : Live(o)

\* a request to one of the admin routes on tokens, with cookie c: it stops in
\* get_current_user or runs the operation of the route
AdminRoute(c) ==
    \/ NotAuthenticated(c)
    \/ /\ get_current_user(c)
       /\ \/ AdminGetAllTokens(c)
          \/ \E u \in UserInfos : GenerateToken(u)
          \/ Admin

\* a request without a session that validates is answered 401 and leaves the
\* store of tokens as it is
GateHolds ==
    \A c \in SessionIds :
        (~Live(c) /\ AdminRoute(c)) =>
            /\ last'.op = "401 Not authenticated"
            /\ UNCHANGED <<data, disk>>

\* the store of tokens changes only while a session validates
StoreBehindSession ==
    (data' # data \/ disk' # disk) => \E c \in SessionIds : Live(c)

\* a session is created only by a login with the configured username and
\* password; any other login is answered 401 and creates none
OnlyLoginCreates ==
    /\ DOMAIN sessions' \ DOMAIN sessions # {} =>
          AdminLogin(ADMIN_USERNAME, ADMIN_PASSWORD)
    /\ \A u \in Usernames, p \in Passwords :
          (AdminLogin(u, p) /\ ~(u = ADMIN_USERNAME /\ p = ADMIN_PASSWORD)) =>
              /\ last'.op = "401 Invalid credentials"
              /\ UNCHANGED <<sessions, sids, data, disk>>

\* C12: the admin operations on tokens (create, list, revoke, activate,
\* delete) reach the store only when the request carries a session id that
\* validate_session accepts at that moment; sessions are created only by a
\* login whose username and password both match; a request with a missing,
\* unknown, logged-out or expired session id is answered 401 and leaves
\* tokens, usage log and stats unchanged.
C12_AdminBehindSession ==
    [][GateHolds /\ StoreBehindSession /\ OnlyLoginCreates]_vars

\* a request with the id of a session that has expired was turned away
\* while the store holds a token
C12_Witness ==
    /\ last.op = "401 Not authenticated"
    /\ last.arg \in 1..sids
    /\ last.arg \notin DOMAIN sessions
    /\ now > SessionTtl
    /\ DOMAIN data.tokens # {}
    /\ disk = data

\* every record call that has returned is counted: once no caller is inside
\* log_usage, the global counter, the log and the aggregates of the tokens
\* agree, in memory and in the file
NoLostUpdate ==
    (\A t \in Threads : threads[t].pc = "idle") =>
        /\ data.stats.total_requests = Len(applied)
        /\ Len(data.usage_logs) = Min(Len(applied), MaxUsageLogs)
        /\ SumRequests(data.tokens, DOMAIN data.tokens) = Len(applied)
        /\ Len(applied) > 0 => disk = data

\* what a reader is given never shows a record applied in part
NoPartialRead ==
    last.op = "admin_panel" =>
        SumRequests(last.ret.tokens, DOMAIN last.ret.tokens) = last.ret.stats.total_requests

\* C13: the mutating operations are serialized for their whole
\* read-modify-persist cycle: run concurrently, their steps do not interleave,
\* so that no update is lost (two records add 2 to total_requests and two log
\* entries) and no reader observes a record that is applied in part.
C13_Serialized == NoLostUpdate /\ NoPartialRead

\* the step is a mutating operation that returns to its caller: create,
\* revoke, activate or delete of an existing token, record for an existing
\* token
Mutation ==
    /\ Up
    /\ \/ \E u \in UserInfos : GenerateToken(u)
       \/ \E i \in TokenIds :
             /\ RevokeToken(i) \/ ActivateToken(i) \/ DeleteToken(i)
             /\ last'.ret = TRUE
       \/ LogUsageStep /\ TokenIdOf(last'.arg) \in DOMAIN data.tokens

\* C14: after every mutating operation that returns successfully the file
\* holds the in-memory {tokens, usage_logs, stats}, so that a restart loads
\* the same tokens, usage log and stats; the sessions are not in the file and
\* no session validates after a restart.
C14_PersistedEqualsMemory ==
    [][/\ Mutation => (disk' = data' /\ _load_data(disk') = <<data', "ok">>)
       /\ Restart => /\ sessions' = EmptyMap
                     /\ \A c \in SessionIds : ~validate_session(sessions', c, now')[2]
                     /\ "sessions" \notin DOMAIN disk]_vars

\* the store was started again from the file a record had written, after a
\* login: the token and its usage are back, the session is not
C14_Witness ==
    /\ last.op = "__init__"
    /\ last.ret = "ok"
    /\ Up
    /\ data = disk
    /\ Len(data.usage_logs) > 0
    /\ data.stats.total_requests = Len(applied)
    /\ sids > 0
    /\ sessions = EmptyMap

\* the step is a mutating operation whose write fails
FailedWrite ==
    \/ \E u \in UserInfos : GenerateTokenSaveFails(u)
    \/ \E i \in TokenIds :
          RevokeTokenSaveFails(i) \/ ActivateTokenSaveFails(i) \/ DeleteTokenSaveFails(i)
    \/ /\ Len(applied') > Len(applied)
       /\ \E s \in Secrets, m \in Models, n \in Amounts, ip \in Ips, c \in AllCountries :
             LogUsageSaveFails(s, m, n, ip, c)

\* the failure reaches the caller as the exception, after one attempt: the
\* file is as before or cut off, and self.data keeps the change, which the
\* operations that follow read
FailureSurfaced ==
    /\ FailedWrite => (last'.op = "OSError" /\ disk' \in {disk, NotJson})
    /\ \A i \in TokenIds :
          RevokeTokenSaveFails(i) =>
              /\ data' = revoke_token(data, i)[1]
              /\ \A s \in SecretsOf(i) : ~validate_token(data', s)
              /\ revoke_token(data', i) = <<data', TRUE>>

\* the invariants of the store on self.data
StoreInvariants ==
    /\ data.stats.active_tokens = Cardinality(ActiveIds(data))
    /\ IpListsBounded
    /\ Len(data.usage_logs) <= MaxUsageLogs

\* C15: when the write fails during a mutating operation there is no retry and
\* the failure is surfaced to the caller of that operation; the store stays
\* usable: later operations act on the in-memory state, the invariants on it
\* (active_tokens count, caps) hold, and the next successful write makes the
\* file equal to the in-memory state again.
C15_WriteFailureSurfaced ==
    /\ [](StoreInvariants)
    /\ [][FailureSurfaced /\ (Mutation => disk' = data')]_vars

\* the write of a revoke has failed: the caller has the exception, the token
\* is revoked in memory and active in the file
C15_Witness ==
    /\ last.op = "OSError"
    /\ last.arg = "revoke_token"
    /\ ~data.tokens[last.ret].is_active
    /\ "tokens" \in DOMAIN disk
    /\ disk.tokens[last.ret].is_active
    /\ data.stats.active_tokens = 0

\* a step is a record call for the existing token of secret s from ip
RecordCall(s, ip) ==
    /\ TokenIdOf(s) \in DOMAIN data.tokens
    /\ \E m \in Models :
          \/ \E c \in CountriesOf(ip) : LogUsage(s, m, 1, ip, c)
          \/ LogUsageTypeError(s, m, 1, ip)

\* the call returned, and recorded country c: aggregates, log entry and
\* global counters as log_usage applies them, written to the file
RecordedAs(s, ip, c) ==
    /\ last' = [op |-> "log_usage", arg |-> s, ret |-> "None"]
    /\ Len(applied') = Len(applied) + 1
    /\ LET e == applied'[Len(applied')]
       IN  /\ e.country = c
           /\ e.token_id = TokenIdOf(s)
           /\ e.ip = ip
           /\ data' = log_usage(data, s, e.model, e.tokens, ip, c, now)
    /\ disk' = data'

\* C16: recording usage never fails because of geolocation: from a loopback
\* address the country recorded is "Local"; from any other address the
\* record call completes with the token aggregates, the log entry and the
\* global counters applied, and the country recorded is the country name the
\* resolver gave or else "Unknown", whatever the resolver returned
C16_GeoNeverFails ==
    [][\A s \in Secrets, ip \in Ips :
          RecordCall(s, ip) =>
             IF ip \in LoopbackIps
             THEN RecordedAs(s, ip, "Local")
             ELSE RecordedAs(s, ip, "US") \/ RecordedAs(s, ip, "Unknown")]_vars

\* sum of the counts of a models_used or countries dict
RECURSIVE SumCounts(_, _)
SumCounts(f, S) ==
    IF S = {}
    THEN 0
    ELSE LET k == CHOOSE x \in S : TRUE
         IN  f[k] + SumCounts(f, S \ {k})

\* a step is a record call that returned, for the existing token of secret s
AppliedRecord(s, m, n, ip) ==
    /\ TokenIdOf(s) \in DOMAIN data.tokens
    /\ \E c \in CountriesOf(ip) : LogUsage(s, m, n, ip, c)

\* the four increments of one record call on the aggregates of its token
FourIncrements(s, m, n) ==
    LET us == data.tokens[TokenIdOf(s)].usage_stats
        us1 == data'.tokens[TokenIdOf(s)].usage_stats
        c == applied'[Len(applied')].country
    IN  /\ us1.total_requests = us.total_requests + 1
        /\ us1.total_tokens = us.total_tokens + n
        /\ us1.models_used = Incr(us.models_used, m)
        /\ us1.countries = Incr(us.countries, c)

\* each token's total_requests is the sum of its models_used counts and the
\* sum of its countries counts
CountsAgree ==
    \A i \in DOMAIN data.tokens :
        LET us == data.tokens[i].usage_stats
        IN  /\ us.total_requests = SumCounts(us.models_used, DOMAIN us.models_used)
            /\ us.total_requests = SumCounts(us.countries, DOMAIN us.countries)

\* C20: every record call applied to an existing token adds 1 to the token's
\* total_requests, tokens_used to its total_tokens, 1 to models_used[model]
\* and 1 to countries[country], for every value the resolver can return;
\* hence in every state each token's total_requests equals the sum of its
\* models_used counts and the sum of its countries counts
C20_RecordIncrements ==
    /\ [](CountsAgree)
    /\ [][\A s \in Secrets, ip \in Ips :
             AppliedRecord(s, "gpt", 1, ip) => FourIncrements(s, "gpt", 1)]_vars

\* every record is stored under the identifier derived from its own secret
KeyedByOwnSecret ==
    \A i \in DOMAIN data.tokens : TokenIdOf(data.tokens[i].key) = i

\* the records stored hold pairwise distinct secrets, each an issued one
OneRecordPerSecret ==
    /\ \A i \in DOMAIN data.tokens : data.tokens[i].key \in 1..issued
    /\ Cardinality({data.tokens[i].key : i \in DOMAIN data.tokens}) =
          Cardinality(DOMAIN data.tokens)

\* get_token_info of an issued secret returns nothing or the record of that
\* secret, never the record of another one
LookupFindsOwn ==
    \A s \in 1..issued :
        LET r == get_token_info(data, s)
        IN  r # <<>> => r[1].key = s

\* a create call adds one record, under an identifier that was free, and
\* leaves every other record as it was; lookup of the secret returned finds it
CreateAddsOne ==
    \A u \in UserInfos :
       GenerateToken(u) =>
          LET i == TokenIdOf(last'.ret)
          IN  /\ i \notin DOMAIN data.tokens
              /\ DOMAIN data'.tokens = DOMAIN data.tokens \cup {i}
              /\ \A j \in DOMAIN data.tokens : data'.tokens[j] = data.tokens[j]
              /\ get_token_info(data', last'.ret) = <<NewToken(last'.ret, u, now)>>

\* a record leaves the store only in a delete call that names its identifier
OnlyDeleteRemoves ==
    \A i \in DOMAIN data.tokens :
        i \notin DOMAIN data'.tokens => DeleteToken(i)

\* C17: every token record is stored under the token_id derived from its own
\* secret; two create calls never produce the same token_id: each create adds
\* exactly one new record and overwrites none; so get_token_info(s) for an
\* issued secret s whose record was not deleted returns the record whose
\* secret is s
C17_TokenIdDerived ==
    /\ [](KeyedByOwnSecret /\ OneRecordPerSecret /\ LookupFindsOwn)
    /\ [][CreateAddsOne /\ OnlyDeleteRemoves]_vars

\* both secrets issued, one deleted: lookup of the other finds its record
C17_Witness ==
    /\ issued = MaxCreates
    /\ DOMAIN data.tokens = {TokenIdOf(MaxCreates)}
    /\ get_token_info(data, MaxCreates) # <<>>
    /\ get_token_info(data, MaxCreates)[1].key = MaxCreates
    /\ get_token_info(data, 1) = <<>>

\* a start of the program that finds the file missing or malformed
BadStartup == Restart /\ disk \in BadFiles

\* the constructor returned the empty structure
StartsEmpty ==
    /\ last' = [op |-> "__init__", arg |-> 0, ret |-> "ok"]
    /\ data' = _create_empty_db

\* no operation of the store fails for the shape of the loaded document
OperationsWork == Up /\ last.op # "KeyError"

\* C18: startup never fails on bad persisted state: when the file is missing
\* or malformed, loading initializes the store to the empty structure
\* {tokens: {}, usage_logs: [], stats: all zero}, and every operation of the
\* store then works as on a fresh store
C18_StartupNeverFails ==
    /\ [][BadStartup => StartsEmpty]_vars
    /\ [](OperationsWork)

\* the fields of a token record that are not usage data
Identity(r) ==
    [key |-> r.key, created_at |-> r.created_at,
     is_active |-> r.is_active, user_info |-> r.user_info]

\* what a record call with secret s leaves as it was
RecordFrame(s) ==
    /\ DOMAIN data'.tokens = DOMAIN data.tokens
    /\ \A i \in DOMAIN data.tokens :
          /\ Identity(data'.tokens[i]) = Identity(data.tokens[i])
          /\ i # TokenIdOf(s) => data'.tokens[i] = data.tokens[i]
    /\ data'.stats.active_tokens = data.stats.active_tokens

\* C21: record never creates or deletes a token and never changes activation:
\* every record call leaves the set of token_ids, each token's secret,
\* created_at, is_active and user_info, stats.active_tokens, and the
\* usage_stats and last_used of every token other than the one addressed
\* unchanged
C21_RecordFrame ==
    [][LogUsageStep => RecordFrame(last'.arg)]_vars

\* usage was recorded for one token while another one, revoked and never
\* used, is in the store
C21_Witness ==
    /\ last.op = "log_usage"
    /\ TokenIdOf(last.arg) \in DOMAIN data.tokens
    /\ data.tokens[TokenIdOf(last.arg)].usage_stats.total_requests > 0
    /\ \E j \in DOMAIN data.tokens :
          /\ j # TokenIdOf(last.arg)
          /\ ~data.tokens[j].is_active
          /\ data.tokens[j].usage_stats.total_requests = 0

\* the store d with the record under i marked active or not, nothing else
WithActive(d, i, b) == [d EXCEPT !.tokens[i].is_active = b]

\* a record call with secret s for an existing token is applied in full, and
\* with the same effect whether the token is active or not
AppliedInFull(s) ==
    LET i == TokenIdOf(s)
        e == applied'[Len(applied')]
        r == data.tokens[i]
        r1 == data'.tokens[i]
    IN  /\ Len(applied') = Len(applied) + 1
        /\ e.token_id = i
        /\ r1.last_used = now
        /\ r1.usage_stats.total_requests = r.usage_stats.total_requests + 1
        /\ r1.usage_stats.total_tokens = r.usage_stats.total_tokens + e.tokens
        /\ r1.usage_stats.models_used = Incr(r.usage_stats.models_used, e.model)
        /\ InSeq(e.ip, r1.usage_stats.ip_addresses)
        /\ r1.usage_stats.countries = TrackCountry(r.usage_stats.countries, e.country)
        /\ data'.usage_logs = AddUsageLog(data.usage_logs, e)
        /\ data'.stats.total_requests = data.stats.total_requests + 1
        /\ data'.stats.total_tokens = data.stats.total_tokens + e.tokens
        /\ disk' = data'
        /\ WithActive(data', i, TRUE) =
              log_usage(WithActive(data, i, TRUE), s, e.model, e.tokens, e.ip, e.country, now)

\* C22: record does not consult is_active: a record call presenting the
\* secret of an existing but revoked token, for which validate returns false,
\* is applied in full (last_used, usage_stats, a new log entry and the global
\* total_requests and total_tokens) exactly as for an active token; only a
\* token that does not exist causes a drop
C22_RecordIgnoresActive ==
    [][LogUsageStep =>
          IF TokenIdOf(last'.arg) \in DOMAIN data.tokens
          THEN AppliedInFull(last'.arg)
          ELSE data' = data /\ applied' = applied]_vars

\* the latest call recorded usage with the secret of a revoked token
C22_Witness ==
    /\ last.op = "log_usage"
    /\ last.arg \in 1..issued
    /\ TokenIdOf(last.arg) \in DOMAIN data.tokens
    /\ ~validate_token(data, last.arg)
    /\ data.tokens[TokenIdOf(last.arg)].usage_stats.total_requests > 0
    /\ Len(data.usage_logs) > 0
    /\ data.stats.total_requests > 0

\* the IPs of the events h[1..n] that were inserted into the list, in the
\* order of insertion: an event inserts its IP unless the IP is among the
\* last MaxIpAddresses insertions
RECURSIVE Insertions(_, _)
Insertions(h, n) ==
    IF n = 0
    THEN <<>>
    ELSE LET ins == Insertions(h, n - 1)
         IN  IF InSeq(h[n].ip, LastN(ins, MaxIpAddresses))
             THEN ins
             ELSE Append(ins, h[n].ip)

\* each list is the last insertions, oldest first
OrderedByInsertion ==
    \A i \in DOMAIN data.tokens :
        IpList(data, i) = LastN(Insertions(EventsOf(i), Len(EventsOf(i))), MaxIpAddresses)

\* an applied record with an IP that is in the list leaves the list as it is;
\* with an IP that is not in the list, whether never seen or evicted before,
\* it puts the IP at the end and, the list being full, drops the oldest entry
RepeatKeepsPosition ==
    AppliedStep =>
        LET e == applied'[Len(applied')]
            old == IpList(data, e.token_id)
            new == IpList(data', e.token_id)
        IN  /\ InSeq(e.ip, old) => new = old
            /\ (~InSeq(e.ip, old) /\ Len(old) = MaxIpAddresses) =>
                  /\ new[Len(new)] = e.ip
                  /\ ~InSeq(old[1], new)
                  /\ \A k \in 1..(Len(new) - 1) : new[k] = old[k + 1]

\* the events of token i: as many distinct IPs as the list holds, the first
\* of them again, then an IP not in the list
UsedThenPushedOut(i) ==
    LET h == EventsOf(i)
        n == Len(h)
    IN  /\ n = MaxIpAddresses + 2
        /\ \A a, b \in 1..(n - 2) : a # b => h[a].ip # h[b].ip
        /\ h[n - 1].ip = h[1].ip
        /\ \A a \in 1..(n - 2) : h[a].ip # h[n].ip

\* the IP used by the event before the latest one is gone from the list
RecentUseNoProtection ==
    \A i \in DOMAIN data.tokens :
        UsedThenPushedOut(i) =>
            /\ ~InSeq(EventsOf(i)[1].ip, IpList(data, i))
            /\ IpList(data, i)[MaxIpAddresses] = EventsOf(i)[Len(EventsOf(i))].ip

\* C23: ip_addresses is ordered by first insertion and a repeated IP does not
\* refresh its position: an IP in the list is evicted as soon as enough
\* further distinct IPs are recorded to push it past the cap, even if it was
\* also used by the most recent events; an evicted IP that is seen again is
\* appended at the end as if new, evicting the then-oldest entry
C23_IpFifoNoRefresh ==
    /\ [](OrderedByInsertion /\ RecentUseNoProtection)
    /\ [][RepeatKeepsPosition]_vars

\* a token was used from the oldest IP of its full list and then from a new
\* IP, and the oldest IP is no longer in the list
C23_Witness ==
    \E i \in DOMAIN data.tokens :
        /\ UsedThenPushedOut(i)
        /\ ~InSeq(EventsOf(i)[1].ip, IpList(data, i))

====
